---- MODULE Spec2Model ----
(***************************************************************************)
(* Model of bbot/core/helpers/dns/dns.py (class DNSHelper).                *)
(*                                                                         *)
(* Strings that the code splits or joins on "." (host names, event.data)   *)
(* are modelled as sequences of labels: "www.github.io" is                 *)
(* <<"www", "github", "io">>, the empty string is <<>>, and a trailing dot *)
(* is a trailing empty label.  Tags are plain strings.                     *)
(*                                                                         *)
(* Two specifications share the module:                                    *)
(*   SpecResolve  - concurrent callers of resolve_event (lines 95-126)     *)
(*   SpecWildcard - is_wildcard and handle_wildcard_event (lines 128-257)  *)
(***************************************************************************)
EXTENDS Integers, Sequences, FiniteSets, TLC

\* ------------------------------------------------------------------ bounds
NumCallers == 2
MaxCalls == 3
\* calls started in the runs checked for liveness
MaxLiveCalls == 2

\* --------------------------------------------------------- program constants
\* LRUCache(maxsize=10000), line 76
EventCacheMaxSize == 10000

VARIABLES
    \* ---- DNSHelper fields
    wildcard_ignore,     \* self.wildcard_ignore (tuple of names), lines 70-73
    event_cache,         \* self._event_cache: LRU order, least recent first
    lock_holder,         \* self._event_cache_locks: host -> caller holding it, 0 if free
    \* ---- the callers of resolve_event
    pc,                  \* position of each caller inside resolve_event
    ev,                  \* the event each caller passed
    result,              \* outcome of each caller's latest call
    hit,                 \* the latest call found its host in the cache (line 113)
    queried,             \* Resolution Service calls the latest call issued
    prev,                \* host and outcome of each caller's call before the latest
    \* ---- the Resolution Service as seen from resolve_event
    svc_calls,           \* run_and_return("resolve_event") invocations per host
    svc_failed,          \* some invocation for the host raised
    ncalls,              \* resolve_event calls started so far
    \* ---- one call of is_wildcard (lines 128-181)
    iw_pc,               \* "idle", "awaiting" (line 181) or "done"
    iw_caller,           \* "direct", or "handle" when called from line 211
    iw_args,             \* query, ips, rdtype as passed
    iw_result,           \* what the call returned or raised
    iw_queries,          \* run_and_return("is_wildcard") invocations of the call
    iw_forwarded,        \* the query handed to the detector
    \* ---- one call of handle_wildcard_event (lines 186-257)
    h_pc,                \* "idle", "detect" (line 211), "tagged" (line 219) or "done"
    event,               \* the event, mutated in place
    event0,              \* the event as it was passed
    wildcard_rdtypes,    \* the local of that name: bound or not, and its items
    h_outcome            \* "none", "returned" or the exception raised

resolveVars == <<event_cache, lock_holder, pc, ev, result, hit, queried, prev,
                 svc_calls, svc_failed, ncalls>>
wildVars == <<wildcard_ignore, iw_pc, iw_caller, iw_args, iw_result, iw_queries,
              iw_forwarded, h_pc, event, event0, wildcard_rdtypes, h_outcome>>
vars == <<resolveVars, wildVars>>

Callers == 1..NumCallers

\* ------------------------------------------------------------------ values
EmptyDict == [k \in {} |-> {}]

HostA == <<"www", "github", "io">>
HostB == <<"10", "0", "0", "1">>
NoHost == <<>>
ResolveHosts == {HostA, HostB}
EventTypes == {"DNS_NAME", "IP_RANGE"}
ResolveEvents == [host : ResolveHosts \cup {NoHost}, type : EventTypes]

\* what run_and_return("resolve_event") can hand back: (event_tags, dns_children)
ServiceResults ==
    { [tags |-> {"a-record"}, children |-> [A |-> {"1.2.3.4"}]],
      [tags |-> {"unresolved"}, children |-> EmptyDict] }

\* The outcome of a call.  len is the length of the returned tuple (0 when the
\* call raised); whitelisted/blacklisted are "absent" in a 2-tuple.
NoResult ==
    [kind |-> "none", exc |-> "", len |-> 0, tags |-> {}, whitelisted |-> "absent",
     blacklisted |-> "absent", children |-> EmptyDict]
Raised(e) ==
    [kind |-> "raise", exc |-> e, len |-> 0, tags |-> {}, whitelisted |-> "absent",
     blacklisted |-> "absent", children |-> EmptyDict]
\* line 99: return set(), False, False, dict()
ShortCircuitResult ==
    [kind |-> "return", exc |-> "", len |-> 4, tags |-> {}, whitelisted |-> "False",
     blacklisted |-> "False", children |-> EmptyDict]
\* line 126: return event_tags, dns_children
Returned2(t, ch) ==
    [kind |-> "return", exc |-> "", len |-> 2, tags |-> t, whitelisted |-> "absent",
     blacklisted |-> "absent", children |-> ch]

NoPrev == [valid |-> FALSE, host |-> NoHost, res |-> NoResult]

\* ------------------------------------------------------- LRUCache (line 76)
CacheKeys(cache) == {cache[i].key : i \in 1..Len(cache)}
CacheIndex(cache, k) == CHOOSE i \in 1..Len(cache) : cache[i].key = k
CacheValue(cache, k) == cache[CacheIndex(cache, k)].val
CacheWithout(cache, k) == SelectSeq(cache, LAMBDA e : e.key # k)
\* LRUCache.__getitem__ marks the key most recently used
CacheTouch(cache, k) ==
    Append(CacheWithout(cache, k), [key |-> k, val |-> CacheValue(cache, k)])
\* LRUCache.__setitem__: evict the least recently used entry when full
CacheSet(cache, k, v) ==
    LET rest == CacheWithout(cache, k)
        room == IF Len(rest) >= EventCacheMaxSize THEN Tail(rest) ELSE rest
    IN  Append(room, [key |-> k, val |-> v])

\* ---------------------------------------------------- NamedLock (line 77)
LockFree(h) == lock_holder[h] = 0
LockTake(h, c) == [lock_holder EXCEPT ![h] = c]
LockRelease(h) == [lock_holder EXCEPT ![h] = 0]

\* ------------------------------------------------------------ resolve_event
\* line 97: (not event.host) or (event.type in ("IP_RANGE",))
NoHostOnly(e) == e.host = NoHost
NoHostOrRange(e) == e.host = NoHost \/ e.type \in {"IP_RANGE"}

\* lines 97-99: the call returns at once
ShortCircuit(c, e) ==
    /\ pc[c] = "idle"
    /\ ncalls < MaxCalls
    /\ NoHostOrRange(e)
    /\ ev' = [ev EXCEPT ![c] = e]
    /\ result' = [result EXCEPT ![c] = ShortCircuitResult]
    /\ hit' = [hit EXCEPT ![c] = FALSE]
    /\ queried' = [queried EXCEPT ![c] = 0]
    /\ pc' = [pc EXCEPT ![c] = "done"]
    /\ ncalls' = ncalls + 1
    /\ UNCHANGED <<wildVars, event_cache, lock_holder, prev, svc_calls, svc_failed>>

\* lines 101-110: the call reaches "async with ...lock(event_host)".
\* (The test of line 106 repeats the one of line 97 on the same event with no
\* suspension in between, so it is false here.)
Enter(c, e) ==
    /\ pc[c] = "idle"
    /\ ncalls < MaxCalls
    /\ ~NoHostOrRange(e)
    /\ ev' = [ev EXCEPT ![c] = e]
    /\ result' = [result EXCEPT ![c] = NoResult]
    /\ hit' = [hit EXCEPT ![c] = FALSE]
    /\ queried' = [queried EXCEPT ![c] = 0]
    /\ pc' = [pc EXCEPT ![c] = "acquire"]
    /\ ncalls' = ncalls + 1
    /\ UNCHANGED <<wildVars, event_cache, lock_holder, prev, svc_calls, svc_failed>>

\* line 110, __aenter__ without the lock: a caller that does not wait for it
AcquireUnguarded(c) ==
    /\ pc[c] = "acquire"
    /\ lock_holder' = LockTake(ev[c].host, c)
    /\ pc' = [pc EXCEPT ![c] = "lookup"]
    /\ UNCHANGED <<wildVars, event_cache, ev, result, hit, queried, prev,
                   svc_calls, svc_failed, ncalls>>

\* line 110, __aenter__: the caller takes the lock of its host once it is free
Acquire(c) ==
    /\ pc[c] = "acquire"
    /\ LockFree(ev[c].host)
    /\ lock_holder' = LockTake(ev[c].host, c)
    /\ pc' = [pc EXCEPT ![c] = "lookup"]
    /\ UNCHANGED <<wildVars, event_cache, ev, result, hit, queried, prev,
                   svc_calls, svc_failed, ncalls>>

\* lines 112-122 where a cache hit falls through to the Resolution Service
CacheLookupFallThrough(c) ==
    LET h == ev[c].host IN
    /\ pc[c] = "lookup"
    /\ hit' = [hit EXCEPT ![c] = h \in CacheKeys(event_cache)]
    /\ event_cache' = IF h \in CacheKeys(event_cache)
                      THEN CacheTouch(event_cache, h) ELSE event_cache
    /\ queried' = [queried EXCEPT ![c] = @ + 1]
    /\ svc_calls' = [svc_calls EXCEPT ![h] = @ + 1]
    /\ pc' = [pc EXCEPT ![c] = "resolve"]
    /\ UNCHANGED <<wildVars, lock_holder, ev, result, prev, svc_failed, ncalls>>

\* lines 112-122.  On a hit line 113 succeeds, line 114 updates the local tag
\* set, and line 116 reads the name _event_whitelisted, which nothing binds:
\* NameError, which "except KeyError" does not catch, leaves the "async with"
\* block (releasing the lock) and reaches the caller.  On a miss (KeyError)
\* the call goes on to run_and_return("resolve_event") at line 122.
CacheLookup(c) ==
    LET h == ev[c].host IN
    /\ pc[c] = "lookup"
    /\ IF h \in CacheKeys(event_cache)
       THEN /\ event_cache' = CacheTouch(event_cache, h)
            /\ hit' = [hit EXCEPT ![c] = TRUE]
            /\ result' = [result EXCEPT ![c] = Raised("NameError")]
            /\ lock_holder' = LockRelease(h)
            /\ pc' = [pc EXCEPT ![c] = "done"]
            /\ UNCHANGED <<queried, svc_calls>>
       ELSE /\ queried' = [queried EXCEPT ![c] = @ + 1]
            /\ svc_calls' = [svc_calls EXCEPT ![h] = @ + 1]
            /\ pc' = [pc EXCEPT ![c] = "resolve"]
            /\ UNCHANGED <<event_cache, hit, result, lock_holder>>
    /\ UNCHANGED <<wildVars, ev, prev, svc_failed, ncalls>>

\* lines 122-126: the service answers r; it is stored, the lock is released
\* by __aexit__ and the 2-tuple is returned
ServiceReturn(c, r) ==
    LET h == ev[c].host IN
    /\ pc[c] = "resolve"
    /\ event_cache' = CacheSet(event_cache, h, r)
    /\ result' = [result EXCEPT ![c] = Returned2(r.tags, r.children)]
    /\ lock_holder' = LockRelease(h)
    /\ pc' = [pc EXCEPT ![c] = "done"]
    /\ UNCHANGED <<wildVars, ev, hit, queried, prev, svc_calls, svc_failed, ncalls>>

\* line 122 raising with the failure remembered: an empty entry is stored
ServiceRaiseCachesFailure(c) ==
    LET h == ev[c].host IN
    /\ pc[c] = "resolve"
    /\ event_cache' = CacheSet(event_cache, h, [tags |-> {}, children |-> EmptyDict])
    /\ result' = [result EXCEPT ![c] = Raised("ServiceError")]
    /\ svc_failed' = [svc_failed EXCEPT ![h] = TRUE]
    /\ lock_holder' = LockRelease(h)
    /\ pc' = [pc EXCEPT ![c] = "done"]
    /\ UNCHANGED <<wildVars, ev, hit, queried, prev, svc_calls, ncalls>>

\* line 122 raising with the lock kept: no __aexit__ on the error path
ServiceRaiseKeepLock(c) ==
    LET h == ev[c].host IN
    /\ pc[c] = "resolve"
    /\ result' = [result EXCEPT ![c] = Raised("ServiceError")]
    /\ svc_failed' = [svc_failed EXCEPT ![h] = TRUE]
    /\ pc' = [pc EXCEPT ![c] = "done"]
    /\ UNCHANGED <<wildVars, event_cache, lock_holder, ev, hit, queried, prev,
                   svc_calls, ncalls>>

\* line 122 raises: the exception leaves the "async with" block, whose
\* __aexit__ releases the lock; line 124 is not reached
ServiceRaise(c) ==
    LET h == ev[c].host IN
    /\ pc[c] = "resolve"
    /\ result' = [result EXCEPT ![c] = Raised("ServiceError")]
    /\ svc_failed' = [svc_failed EXCEPT ![h] = TRUE]
    /\ lock_holder' = LockRelease(h)
    /\ pc' = [pc EXCEPT ![c] = "done"]
    /\ UNCHANGED <<wildVars, event_cache, ev, hit, queried, prev, svc_calls, ncalls>>

\* the caller has taken the outcome and may call again; the call's frame is gone
Finish(c) ==
    /\ pc[c] = "done"
    /\ prev' = [prev EXCEPT ![c] = [valid |-> TRUE, host |-> ev[c].host, res |-> result[c]]]
    /\ pc' = [pc EXCEPT ![c] = "idle"]
    /\ ev' = [ev EXCEPT ![c] = [host |-> NoHost, type |-> "DNS_NAME"]]
    /\ result' = [result EXCEPT ![c] = NoResult]
    /\ hit' = [hit EXCEPT ![c] = FALSE]
    /\ queried' = [queried EXCEPT ![c] = 0]
    /\ UNCHANGED <<wildVars, event_cache, lock_holder, svc_calls, svc_failed, ncalls>>

\* ================================================================ strings
\* str.lower() / str.upper() / str.strip() on the labels and record types in use
LowerLabel(s) ==
    CASE s = "WWW" -> "www"
      [] s = "Ignored" -> "ignored"
      [] s = "COM" -> "com"
      [] s = "A" -> "a"
      [] s = "AAAA" -> "aaaa"
      [] OTHER -> s
UpperLabel(s) ==
    CASE s = "a" -> "A"
      [] s = "aaaa" -> "AAAA"
      [] OTHER -> s
StripLabel(s) ==
    CASE s = " Ignored" -> "Ignored"
      [] s = "COM " -> "COM"
      [] OTHER -> s

Digits == {"0", "1", "10"}
BadLabels == {"b@d", ""}
Labels(name) == {name[i] : i \in 1..Len(name)}
IsSuffix(d, name) ==
    /\ Len(d) <= Len(name)
    /\ \A i \in 1..Len(d) : d[i] = name[Len(name) - Len(d) + i]

\* ..misc helpers imported at line 11
\* is_ip: the canonical IP-parse check
IsIp(name) == Len(name) = 4 /\ Labels(name) \subseteq Digits
\* clean_dns_record: lowercased, trailing dot stripped
CleanDnsRecord(name) ==
    LET body == IF Len(name) > 0 /\ name[Len(name)] = ""
                THEN SubSeq(name, 1, Len(name) - 1) ELSE name
    IN  [i \in 1..Len(body) |-> LowerLabel(body[i])]
\* is_dns_name: syntactically valid DNS name (a single label is one; an IP is not)
IsDnsName(name) ==
    LET body == IF Len(name) > 0 /\ name[Len(name)] = ""
                THEN SubSeq(name, 1, Len(name) - 1) ELSE name
    IN  /\ Len(body) > 0
        /\ ~IsIp(body)
        /\ Labels(body) \cap BadLabels = {}
\* host_in_host: name equals d or is a subdomain of d
HostInHost(name, d) == Len(d) > 0 /\ IsSuffix(d, name)
\* is_domain: a bare registrable domain (one label under the public suffix)
IsDomain(name) == Len(name) = 2 /\ ~IsIp(name)
\* parent_helper.parent_domain: the domain above the leftmost label
ParentDomain(name) == IF Len(name) > 2 THEN Tail(name) ELSE name

\* optional arguments: None, or a value
None(empty) == [some |-> FALSE, val |-> empty]
Some(v) == [some |-> TRUE, val |-> v]

\* ============================================================ __init__ 70-73
\* config.get("dns_wildcard_ignore", None): absent, empty, or a list of names
ConfigIgnoreChoices ==
    { None(<<>>), Some(<<>>),
      Some(<< <<"ignored", "com">> >>),
      Some(<< <<" Ignored", "COM ">> >>) }
\* str(d).strip().lower(), line 73
StripLower(d) ==
    [i \in 1..Len(d) |->
        LowerLabel(IF i = 1 \/ i = Len(d) THEN StripLabel(d[i]) ELSE d[i])]
\* lines 70-73
InitWildcardIgnore(cfg) ==
    LET lst == IF ~cfg.some \/ cfg.val = <<>> THEN <<>> ELSE cfg.val
    IN  [i \in 1..Len(lst) |-> StripLower(lst[i])]

\* ================================================================ is_wildcard
RdTypes == {"A", "AAAA"}
TriState == {"True", "False", "None"}
WildcardParents == {<<"github", "io">>, <<"io">>}
\* what run_and_return("is_wildcard") can hand back: a dict, in iteration
\* order, from record type to (is_wildcard, parent)
MapEntries == [rdtype : RdTypes, is_wildcard : TriState, parent : WildcardParents]
DetectionMaps ==
    {<<>>} \cup {<<e>> : e \in MapEntries}
           \cup {m \in MapEntries \X MapEntries : m[1].rdtype # m[2].rdtype}
MapKeys(m) == {m[i].rdtype : i \in 1..Len(m)}

Queries ==
    { <<"www", "github", "io">>, <<"github", "io">>, <<"10", "0", "0", "1">>,
      <<"localhost">>, <<"b@d", "github", "io">>, <<"www", "ignored", "com">>,
      <<"ignored", "com">>, <<"WWW", "github", "io", "">> }
IpsArgs == {None(<<>>), Some(<<"1.2.3.4">>), Some(<<>>)}
RdtypeArgs == {None(""), Some("A")}
NoArgs == [query |-> <<>>, ips |-> None(<<>>), rdtype |-> None("")]

IwNoResult == [kind |-> "none", exc |-> "", map |-> <<>>]
IwReturned(m) == [kind |-> "return", exc |-> "", map |-> m]
IwRaised(e) == [kind |-> "raise", exc |-> e, map |-> <<>>]

\* lines 160-179 with the argument check of lines 160-161 made last
IsWildcardDecisionLateUsage(query, ips, rdtype) ==
    IF ~IsDnsName(query) THEN "empty"
    ELSE IF \E i \in 1..Len(wildcard_ignore) : HostInHost(query, wildcard_ignore[i])
    THEN "empty"
    ELSE IF IsIp(CleanDnsRecord(query)) \/ Len(CleanDnsRecord(query)) < 2 THEN "empty"
    ELSE IF IsDomain(CleanDnsRecord(query)) THEN "empty"
    ELSE IF Cardinality({x \in {1, 2} : ~(<<ips, rdtype>>[x]).some}) = 1 THEN "ValueError"
    ELSE "forward"

\* lines 160-179 without the wildcard_ignore loop of lines 168-171
IsWildcardDecisionNoIgnore(query, ips, rdtype) ==
    IF Cardinality({x \in {1, 2} : ~(<<ips, rdtype>>[x]).some}) = 1 THEN "ValueError"
    ELSE IF ~IsDnsName(query) THEN "empty"
    ELSE IF IsIp(CleanDnsRecord(query)) \/ Len(CleanDnsRecord(query)) < 2 THEN "empty"
    ELSE IF IsDomain(CleanDnsRecord(query)) THEN "empty"
    ELSE "forward"

\* lines 160-179: what is_wildcard does before it reaches the detector
IsWildcardDecision(query, ips, rdtype) ==
    \* line 160: [ips, rdtype].count(None) == 1
    IF Cardinality({x \in {1, 2} : ~(<<ips, rdtype>>[x]).some}) = 1 THEN "ValueError"
    \* line 164
    ELSE IF ~IsDnsName(query) THEN "empty"
    \* lines 168-171
    ELSE IF \E i \in 1..Len(wildcard_ignore) : HostInHost(query, wildcard_ignore[i])
    THEN "empty"
    \* lines 173-176: "." in query is two labels or more
    ELSE IF IsIp(CleanDnsRecord(query)) \/ Len(CleanDnsRecord(query)) < 2 THEN "empty"
    \* line 178
    ELSE IF IsDomain(CleanDnsRecord(query)) THEN "empty"
    ELSE "forward"

\* lines 160-181 up to the first suspension, for either caller
IsWildcardStart(caller, query, ips, rdtype) ==
    LET d == IsWildcardDecision(query, ips, rdtype) IN
    /\ iw_caller' = caller
    /\ iw_args' = [query |-> query, ips |-> ips, rdtype |-> rdtype]
    /\ iw_pc' = IF d = "forward" THEN "awaiting" ELSE "done"
    /\ iw_result' = CASE d = "ValueError" -> IwRaised("ValueError")
                      [] d = "empty" -> IwReturned(<<>>)
                      [] OTHER -> IwNoResult
    /\ iw_queries' = IF d = "forward" THEN 1 ELSE 0
    /\ iw_forwarded' = IF d = "forward" THEN CleanDnsRecord(query) ELSE <<>>

handleIdleVars == <<h_pc, event, event0, wildcard_rdtypes, h_outcome>>

\* is_wildcard called by some other part of the scanner
IsWildcardCall(query, ips, rdtype) ==
    /\ iw_pc = "idle"
    /\ h_pc = "idle"
    /\ IsWildcardStart("direct", query, ips, rdtype)
    /\ UNCHANGED <<resolveVars, wildcard_ignore, handleIdleVars>>

\* line 181: the detector answers with a map
DetectorReturn(m) ==
    /\ iw_pc = "awaiting"
    /\ iw_result' = IwReturned(m)
    /\ iw_pc' = "done"
    /\ UNCHANGED <<resolveVars, wildcard_ignore, iw_caller, iw_args, iw_queries,
                   iw_forwarded, handleIdleVars>>

\* line 181: run_and_return raises
DetectorRaise ==
    /\ iw_pc = "awaiting"
    /\ iw_result' = IwRaised("DetectorError")
    /\ iw_pc' = "done"
    /\ UNCHANGED <<resolveVars, wildcard_ignore, iw_caller, iw_args, iw_queries,
                   iw_forwarded, handleIdleVars>>

iwIdle ==
    /\ iw_pc' = "idle"
    /\ iw_caller' = "direct"
    /\ iw_args' = NoArgs
    /\ iw_result' = IwNoResult
    /\ iw_queries' = 0
    /\ iw_forwarded' = <<>>

\* the direct caller has taken the outcome
IsWildcardFinish ==
    /\ iw_pc = "done"
    /\ iw_caller = "direct"
    /\ iwIdle
    /\ UNCHANGED <<resolveVars, wildcard_ignore, handleIdleVars>>

\* ====================================================== handle_wildcard_event
HandleHosts ==
    { <<"www", "github", "io">>, <<"github", "io">>, <<"10", "0", "0", "1">>,
      <<"www", "ignored", "com">> }
HandleTypes == {"DNS_NAME", "URL"}
ChildrenChoices ==
    { EmptyDict, [A |-> {"1.2.3.4"}], [A |-> {"1.2.3.4"}, AAAA |-> {"::1"}],
      [a |-> {"1.2.3.4"}] }
HandleEvents ==
    { e \in [host : HandleHosts, type : HandleTypes,
             data : {h : h \in HandleHosts} \cup
                    {<<"_wildcard">> \o ParentDomain(h) : h \in HandleHosts},
             tags : {{}, {"in-scope"}}, dns_children : ChildrenChoices] :
        e.data \in {e.host, <<"_wildcard">> \o ParentDomain(e.host)} }
NoEvent ==
    [host |-> <<>>, type |-> "", data |-> <<>>, tags |-> {}, dns_children |-> EmptyDict]
Unbound == [bound |-> FALSE, items |-> <<>>]
Bound(m) == [bound |-> TRUE, items |-> m]

\* lines 212-217 where only a wildcard item is tagged: no "<type>-error" tag
WildcardTagsNoError(m) ==
    UNION { IF m[i].is_wildcard = "True"
            THEN {"wildcard", LowerLabel(m[i].rdtype) \o "-wildcard"}
            ELSE {} : i \in 1..Len(m) }

\* lines 212-217: the tags the loop adds for the items of wildcard_rdtypes
WildcardTags(m) ==
    UNION { IF m[i].is_wildcard = "True"
            THEN {"wildcard", LowerLabel(m[i].rdtype) \o "-wildcard"}
            ELSE {LowerLabel(m[i].rdtype) \o "-error"} : i \in 1..Len(m) }

\* lines 223-229: event_is_wildcard
EventIsWildcard(e, m) ==
    LET resolved_rdtypes == {UpperLabel(c) : c \in DOMAIN e.dns_children}
        wildcard_rdtypes_set == MapKeys(m)
    IN  /\ resolved_rdtypes # {}
        /\ \A r \in resolved_rdtypes : r \in wildcard_rdtypes_set

\* lines 233-237 without the loop: always the host's parent domain
WildcardParentDefault(m, default) == default

\* lines 233-237 without the break: the last wildcard type decides
WildcardParentLast(m, default) ==
    LET hits == {i \in 1..Len(m) : m[i].is_wildcard = "True"}
    IN  IF hits = {} THEN default
        ELSE m[CHOOSE i \in hits : \A j \in hits : j <= i].parent

\* lines 233-237: the parent of the first item whose is_wildcard is truthy
WildcardParent(m, default) ==
    LET hits == {i \in 1..Len(m) : m[i].is_wildcard = "True"}
    IN  IF hits = {} THEN default
        ELSE m[CHOOSE i \in hits : \A j \in hits : i <= j].parent

\* lines 231-243 without the "_wildcard" label test of line 232
NewDataNoLabelCheck(e, m) ==
    IF /\ EventIsWildcard(e, m)
       /\ e.type \in {"DNS_NAME"}
    THEN LET wildcard_data == <<"_wildcard">> \o WildcardParent(m, ParentDomain(e.host))
         IN  IF wildcard_data # e.data THEN wildcard_data ELSE e.data
    ELSE e.data

\* lines 231-243: event.data after the modification step
NewData(e, m) ==
    IF /\ EventIsWildcard(e, m)
       /\ e.type \in {"DNS_NAME"}
       /\ "_wildcard" \notin Labels(e.data)
    THEN LET wildcard_data == <<"_wildcard">> \o WildcardParent(m, ParentDomain(e.host))
         IN  IF wildcard_data # e.data THEN wildcard_data ELSE e.data
    ELSE e.data

\* lines 205-211: entry; for a host that is not an IP, is_wildcard(event_host)
HandleCall(e) ==
    /\ h_pc = "idle"
    /\ iw_pc = "idle"
    /\ event' = e
    /\ event0' = e
    /\ wildcard_rdtypes' = Unbound
    /\ h_outcome' = "none"
    /\ IF IsIp(e.host)
       THEN /\ h_pc' = "tagged"
            /\ UNCHANGED <<iw_pc, iw_caller, iw_args, iw_result, iw_queries, iw_forwarded>>
       ELSE /\ h_pc' = "detect"
            /\ IsWildcardStart("handle", e.host, None(<<>>), None(""))
    /\ UNCHANGED <<resolveVars, wildcard_ignore>>

\* lines 211-217 where the loop's tags replace the event's tags
HandleDetectedReplaceTags ==
    /\ h_pc = "detect"
    /\ iw_pc = "done"
    /\ iw_caller = "handle"
    /\ IF iw_result.kind = "raise"
       THEN /\ h_outcome' = iw_result.exc
            /\ h_pc' = "done"
            /\ UNCHANGED <<event, wildcard_rdtypes>>
       ELSE /\ wildcard_rdtypes' = Bound(iw_result.map)
            /\ event' = [event EXCEPT !.tags = WildcardTags(iw_result.map)]
            /\ h_pc' = "tagged"
            /\ UNCHANGED h_outcome
    /\ iwIdle
    /\ UNCHANGED <<resolveVars, wildcard_ignore, event0>>

\* lines 211-217: is_wildcard has ended.  If it raised, the exception passes
\* the try/finally of lines 206-257 (which has no except clause) and reaches
\* the caller; otherwise the loop tags the event.
HandleDetected ==
    /\ h_pc = "detect"
    /\ iw_pc = "done"
    /\ iw_caller = "handle"
    /\ IF iw_result.kind = "raise"
       THEN /\ h_outcome' = iw_result.exc
            /\ h_pc' = "done"
            /\ UNCHANGED <<event, wildcard_rdtypes>>
       ELSE /\ wildcard_rdtypes' = Bound(iw_result.map)
            /\ event' = [event EXCEPT !.tags = @ \cup WildcardTags(iw_result.map)]
            /\ h_pc' = "tagged"
            /\ UNCHANGED h_outcome
    /\ iwIdle
    /\ UNCHANGED <<resolveVars, wildcard_ignore, event0>>

\* lines 219-257 where line 220 tests only event.dns_children
HandleModifyNoIpCheck ==
    /\ h_pc = "tagged"
    /\ IF DOMAIN event.dns_children # {}
       THEN IF ~wildcard_rdtypes.bound
            THEN /\ h_outcome' = "UnboundLocalError"
                 /\ UNCHANGED event
            ELSE IF Len(wildcard_rdtypes.items) > 0
            THEN /\ event' = [event EXCEPT !.data = NewData(event, wildcard_rdtypes.items)]
                 /\ h_outcome' = "returned"
            ELSE /\ h_outcome' = "returned"
                 /\ UNCHANGED event
       ELSE /\ h_outcome' = "returned"
            /\ UNCHANGED event
    /\ h_pc' = "done"
    /\ UNCHANGED <<resolveVars, wildcard_ignore, iw_pc, iw_caller, iw_args, iw_result,
                   iw_queries, iw_forwarded, event0, wildcard_rdtypes>>

\* lines 219-257: the modification step and the return
HandleModify ==
    /\ h_pc = "tagged"
    /\ IF (~IsIp(event.host)) /\ DOMAIN event.dns_children # {}
       THEN IF ~wildcard_rdtypes.bound
            THEN /\ h_outcome' = "UnboundLocalError"
                 /\ UNCHANGED event
            ELSE IF Len(wildcard_rdtypes.items) > 0
            THEN /\ event' = [event EXCEPT !.data = NewData(event, wildcard_rdtypes.items)]
                 /\ h_outcome' = "returned"
            ELSE /\ h_outcome' = "returned"
                 /\ UNCHANGED event
       ELSE /\ h_outcome' = "returned"
            /\ UNCHANGED event
    /\ h_pc' = "done"
    /\ UNCHANGED <<resolveVars, wildcard_ignore, iw_pc, iw_caller, iw_args, iw_result,
                   iw_queries, iw_forwarded, event0, wildcard_rdtypes>>

\* the caller has the event back
HandleFinish ==
    /\ h_pc = "done"
    /\ h_pc' = "idle"
    /\ event' = NoEvent
    /\ event0' = NoEvent
    /\ wildcard_rdtypes' = Unbound
    /\ h_outcome' = "none"
    /\ UNCHANGED <<resolveVars, wildcard_ignore, iw_pc, iw_caller, iw_args, iw_result,
                   iw_queries, iw_forwarded>>

\* ============================================================ specifications
\* lines 75-77: empty cache, no lock held; no call in progress
InitResolveVars ==
    /\ event_cache = <<>>
    /\ lock_holder = [h \in ResolveHosts |-> 0]
    /\ pc = [c \in Callers |-> "idle"]
    /\ ev = [c \in Callers |-> [host |-> NoHost, type |-> "DNS_NAME"]]
    /\ result = [c \in Callers |-> NoResult]
    /\ hit = [c \in Callers |-> FALSE]
    /\ queried = [c \in Callers |-> 0]
    /\ prev = [c \in Callers |-> NoPrev]
    /\ svc_calls = [h \in ResolveHosts |-> 0]
    /\ svc_failed = [h \in ResolveHosts |-> FALSE]
    /\ ncalls = 0

\* lines 70-73, and no is_wildcard / handle_wildcard_event call in progress
InitWildVars(cfg) ==
    /\ wildcard_ignore = InitWildcardIgnore(cfg)
    /\ iw_pc = "idle"
    /\ iw_caller = "direct"
    /\ iw_args = NoArgs
    /\ iw_result = IwNoResult
    /\ iw_queries = 0
    /\ iw_forwarded = <<>>
    /\ h_pc = "idle"
    /\ event = NoEvent
    /\ event0 = NoEvent
    /\ wildcard_rdtypes = Unbound
    /\ h_outcome = "none"

InitResolve == InitResolveVars /\ InitWildVars(None(<<>>))

NextResolve ==
    \E c \in Callers :
        \/ \E e \in ResolveEvents : ShortCircuit(c, e)
        \/ \E e \in ResolveEvents : Enter(c, e)
        \/ Acquire(c)
        \/ CacheLookup(c)
        \/ \E r \in ServiceResults : ServiceReturn(c, r)
        \/ ServiceRaise(c)
        \/ Finish(c)

SpecResolve == InitResolve /\ [][NextResolve]_vars

\* resolve_event under the scheduling the event loop provides: the lock is
\* granted fairly to its waiters (line 110), the code after the lock is taken
\* runs (lines 112-121), and the awaited service call of line 122 ends
FairResolve ==
    \A c \in Callers :
        /\ SF_vars(Acquire(c))
        /\ WF_vars(CacheLookup(c))
        /\ WF_vars((\E r \in ServiceResults : ServiceReturn(c, r)) \/ ServiceRaise(c))

\* the steps of NextResolve, with at most MaxLiveCalls calls started
NextResolveLive ==
    \E c \in Callers :
        \/ ncalls < MaxLiveCalls /\ \E e \in ResolveEvents : ShortCircuit(c, e)
        \/ ncalls < MaxLiveCalls /\ \E e \in ResolveEvents : Enter(c, e)
        \/ Acquire(c)
        \/ CacheLookup(c)
        \/ \E r \in ServiceResults : ServiceReturn(c, r)
        \/ ServiceRaise(c)
        \/ Finish(c)

SpecResolveFair == InitResolve /\ [][NextResolveLive]_vars /\ FairResolve

InitWildcard == InitResolveVars /\ \E cfg \in ConfigIgnoreChoices : InitWildVars(cfg)

NextWildcard ==
    \/ \E q \in Queries, ips \in IpsArgs, rdtype \in RdtypeArgs : IsWildcardCall(q, ips, rdtype)
    \/ \E m \in DetectionMaps : DetectorReturn(m)
    \/ DetectorRaise
    \/ IsWildcardFinish
    \/ \E e \in HandleEvents : HandleCall(e)
    \/ HandleDetected
    \/ HandleModify
    \/ HandleFinish

SpecWildcard == InitWildcard /\ [][NextWildcard]_vars

\* ============================================== properties of resolve_event
InSection(c) == pc[c] \in {"lookup", "resolve"}
CallersDoneOn(S, h) ==
    \A c \in S : pc[c] = "done" /\ ev[c].host = h /\ ev[c].type # "IP_RANGE"

\* C1: for any N >= 1 calls for the same host that are all complete and not
\* yet consumed (the results of one gather of N concurrent calls), with no
\* service failure for the host, the Resolution Service was invoked exactly
\* once for the host and all N calls returned the same result.
C1_DedupIdenticalResults ==
    \A h \in ResolveHosts : \A S \in SUBSET Callers :
        (S # {} /\ ~svc_failed[h] /\ CallersDoneOn(S, h)) =>
            /\ svc_calls[h] = 1
            /\ \A c \in S : result[c].kind = "return"
            /\ \A c, d \in S : result[c] = result[d]

\* C2: for every host at most one caller is inside the lock-guarded section
\* (cache lookup, Resolution Service call, cache store).
C2_OneInGuardedSection ==
    \A h \in ResolveHosts :
        Cardinality({c \in Callers : InSection(c) /\ ev[c].host = h}) <= 1

\* a second caller waits for the lock while the first one is resolving
C2_Witness ==
    \E c, d \in Callers :
        /\ c # d
        /\ ev[c].host = ev[d].host
        /\ pc[c] = "resolve"
        /\ pc[d] = "acquire"

\* C3: a call for the host of the caller's previous call, which returned a
\* resolution, returns the same tags and children and issues no query.
C3_SecondCallIdentical ==
    \A c \in Callers :
        ( /\ pc[c] = "done"
          /\ ev[c].host # NoHost /\ ev[c].type # "IP_RANGE"
          /\ prev[c].valid /\ prev[c].host = ev[c].host
          /\ prev[c].res.kind = "return" /\ prev[c].res.len = 2 ) =>
            /\ result[c].kind = "return"
            /\ result[c].tags = prev[c].res.tags
            /\ result[c].children = prev[c].res.children
            /\ queried[c] = 0

\* C4: a call that found its host in the event cache has issued no query to
\* the Resolution Service, whatever its outcome.
C4_HitNeverQueries ==
    \A c \in Callers : hit[c] => queried[c] = 0 /\ pc[c] # "resolve"

\* a call that hit the cache has ended
C4_Witness ==
    \E c \in Callers : hit[c] /\ pc[c] = "done" /\ svc_calls[ev[c].host] = 1

\* C5: a call whose resolution raised does not hold the lock of its host, a
\* held lock always belongs to a caller inside the guarded section for that
\* host, and a caller waiting for a host nobody is working on can take the lock.
C5_LockReleasedOnRaise ==
    /\ \A c \in Callers :
          (pc[c] = "done" /\ result[c].exc = "ServiceError") =>
              lock_holder[ev[c].host] # c
    /\ \A h \in ResolveHosts :
          lock_holder[h] # 0 =>
              InSection(lock_holder[h]) /\ ev[lock_holder[h]].host = h
    /\ \A d \in Callers :
          ( /\ pc[d] = "acquire"
            /\ \A c \in Callers : ~(InSection(c) /\ ev[c].host = ev[d].host) ) =>
              ENABLED Acquire(d)

\* after a failed resolution for a host, a later call holds the host's lock
C5_Witness ==
    \E c, d \in Callers :
        /\ c # d
        /\ pc[c] = "done" /\ result[c].exc = "ServiceError"
        /\ ev[d].host = ev[c].host
        /\ pc[d] = "resolve" /\ lock_holder[ev[d].host] = d

\* C6: a call whose event has no host or has type IP_RANGE ends in the same
\* step with (empty tags, False, False, empty children) and leaves the lock
\* table, the event cache and the Resolution Service untouched.
C6_ShortCircuitFrame ==
    [][ \A c \in Callers :
          ( /\ pc[c] = "idle" /\ pc'[c] # "idle"
            /\ (ev'[c].host = NoHost \/ ev'[c].type = "IP_RANGE") ) =>
              /\ pc'[c] = "done"
              /\ result'[c].kind = "return" /\ result'[c].len = 4
              /\ result'[c].tags = {} /\ result'[c].children = EmptyDict
              /\ result'[c].whitelisted = "False" /\ result'[c].blacklisted = "False"
              /\ hit'[c] = FALSE /\ queried'[c] = 0
              /\ UNCHANGED <<event_cache, lock_holder, svc_calls, svc_failed>> ]_vars

\* an IP_RANGE event with a host was short-circuited while another caller was
\* resolving the same host
C6_Witness ==
    \E c, d \in Callers :
        /\ pc[c] = "done" /\ ev[c].type = "IP_RANGE" /\ ev[c].host # NoHost
        /\ result[c] = ShortCircuitResult
        /\ pc[d] = "resolve" /\ ev[d].host = ev[c].host

\* ========================= properties of is_wildcard and handle_wildcard_event
ExactlyOneOfIpsRdtype == iw_args.ips.some # iw_args.rdtype.some
QueryIgnored(q) ==
    \E i \in 1..Len(wildcard_ignore) :
        Len(wildcard_ignore[i]) > 0 /\ IsSuffix(wildcard_ignore[i], q)
QueryRejected(q) ==
    \/ ~IsDnsName(q)
    \/ QueryIgnored(q)
    \/ IsIp(CleanDnsRecord(q))
    \/ Len(CleanDnsRecord(q)) < 2
    \/ IsDomain(CleanDnsRecord(q))

\* C7: a call of is_wildcard (with both or neither of ips / rdtype) for a
\* hostname that equals or is a subdomain of an ignore entry, is not a valid
\* DNS name, is an IP, has no dot or is a bare domain returns the empty map at
\* once; such a hostname is never handed to the detector, whatever the
\* arguments; what is handed to the detector passed every check.
C7_RejectedNeverQueried ==
    iw_pc # "idle" =>
        /\ QueryRejected(iw_args.query) =>
              /\ iw_queries = 0 /\ iw_forwarded = <<>> /\ iw_pc = "done"
              /\ ~ExactlyOneOfIpsRdtype => iw_result = IwReturned(<<>>)
        /\ iw_queries > 0 => ~QueryRejected(iw_args.query)

\* a subdomain of a configured ignore entry, otherwise acceptable, was
\* answered with the empty map
C7_Witness ==
    /\ iw_pc = "done"
    /\ iw_args.query = <<"www", "ignored", "com">>
    /\ wildcard_ignore = << <<"ignored", "com">> >>
    /\ iw_args.ips.some /\ iw_args.rdtype.some
    /\ iw_result = IwReturned(<<>>)
    /\ iw_queries = 0

\* C8: with exactly one of ips / rdtype the call has raised the usage error
\* without a query, for every hostname; with both or neither it never raises it.
C8_UsageError ==
    iw_pc # "idle" =>
        IF ExactlyOneOfIpsRdtype
        THEN iw_pc = "done" /\ iw_result = IwRaised("ValueError") /\ iw_queries = 0
        ELSE iw_result.exc # "ValueError"

\* the usage error for an ignored hostname
C8_Witness ==
    /\ iw_pc = "done"
    /\ iw_args.query = <<"www", "ignored", "com">>
    /\ wildcard_ignore = << <<"ignored", "com">> >>
    /\ iw_args.ips.some /\ ~iw_args.rdtype.some
    /\ iw_result = IwRaised("ValueError")

ResolvedRdtypes == {UpperLabel(c) : c \in DOMAIN event0.dns_children}
ClassifiedWildcard(r) ==
    \E i \in 1..Len(wildcard_rdtypes.items) :
        wildcard_rdtypes.items[i].rdtype = r /\ wildcard_rdtypes.items[i].is_wildcard = "True"
ClassifiedWildcardUnder(r, P) ==
    \E i \in 1..Len(wildcard_rdtypes.items) :
        /\ wildcard_rdtypes.items[i].rdtype = r
        /\ wildcard_rdtypes.items[i].is_wildcard = "True"
        /\ wildcard_rdtypes.items[i].parent = P
FirstWildcardUnder(P) ==
    \A i \in 1..Len(wildcard_rdtypes.items) :
        ( /\ wildcard_rdtypes.items[i].is_wildcard = "True"
          /\ \A j \in 1..(i - 1) : wildcard_rdtypes.items[j].is_wildcard # "True" ) =>
            wildcard_rdtypes.items[i].parent = P
HandledDnsName ==
    /\ h_pc = "done" /\ h_outcome = "returned"
    /\ event0.type = "DNS_NAME"
    /\ ~IsIp(event0.host)
    /\ "_wildcard" \notin Labels(event0.data)
FullWildcardOutcome(P) ==
    /\ event.data = <<"_wildcard">> \o P
    /\ "wildcard" \in event.tags
    /\ \A r \in ResolvedRdtypes : (LowerLabel(r) \o "-wildcard") \in event.tags

\* C9 as stated: a handled DNS_NAME event with a non-IP host, no _wildcard
\* label in its data, and resolved types that are all classified wildcard with
\* parent P has data "_wildcard." + P and the tags wildcard and
\* <type>-wildcard for each resolved type.
C9_FullWildcardRewrite ==
    HandledDnsName =>
        \A P \in WildcardParents :
            ( /\ ResolvedRdtypes # {}
              /\ \A r \in ResolvedRdtypes : ClassifiedWildcardUnder(r, P) ) =>
                FullWildcardOutcome(P)

\* C9 as amended: the same, where P is moreover the parent reported by the
\* first wildcard-classified type in the iteration order of the detection map.
C9_FullWildcardRewriteFirstParent ==
    HandledDnsName =>
        \A P \in WildcardParents :
            ( /\ ResolvedRdtypes # {}
              /\ \A r \in ResolvedRdtypes : ClassifiedWildcardUnder(r, P)
              /\ FirstWildcardUnder(P) ) =>
                FullWildcardOutcome(P)

\* www.github.io with A and AAAA wildcard under github.io became
\* _wildcard.github.io with the three tags
C9_Witness ==
    /\ HandledDnsName
    /\ event0.host = <<"www", "github", "io">>
    /\ event0.data = <<"www", "github", "io">>
    /\ ResolvedRdtypes = {"A", "AAAA"}
    /\ \A r \in ResolvedRdtypes : ClassifiedWildcardUnder(r, <<"github", "io">>)
    /\ event.data = <<"_wildcard", "github", "io">>
    /\ {"wildcard", "a-wildcard", "aaaa-wildcard"} \subseteq event.tags

\* C10: data is rewritten only when the resolved types are non-empty and each
\* is classified wildcard; with resolved types {A, AAAA} of which only A is
\* classified wildcard, data is unchanged and the tag a-wildcard is present.
C10_RewriteOnlyIfAllWildcard ==
    (h_pc = "done" /\ h_outcome = "returned") =>
        /\ event.data # event0.data =>
              /\ ResolvedRdtypes # {}
              /\ \A r \in ResolvedRdtypes : ClassifiedWildcard(r)
        /\ ( /\ ~IsIp(event0.host)
             /\ wildcard_rdtypes.bound
             /\ ResolvedRdtypes = {"A", "AAAA"}
             /\ ClassifiedWildcard("A") /\ ~ClassifiedWildcard("AAAA") ) =>
               /\ event.data = event0.data
               /\ "a-wildcard" \in event.tags

TaggingDone == h_pc \in {"tagged", "done"} /\ wildcard_rdtypes.bound /\ ~IsIp(event0.host)
AddedTags == event.tags \ event0.tags

\* C11: once the tagging loop has run for a non-IP host, for every item of the
\* detection map the event has the tags wildcard and <type>-wildcard when the
\* item is classified wildcard, and the tag <type>-error when it is inconclusive.
C11_TagsPerItem ==
    TaggingDone =>
        \A i \in 1..Len(wildcard_rdtypes.items) :
            LET it == wildcard_rdtypes.items[i] IN
            /\ it.is_wildcard = "True" =>
                  {"wildcard", LowerLabel(it.rdtype) \o "-wildcard"} \subseteq event.tags
            /\ it.is_wildcard = "None" =>
                  (LowerLabel(it.rdtype) \o "-error") \in event.tags

\* an event tagged for one wildcard type and one inconclusive type
C11_Witness ==
    /\ TaggingDone
    /\ wildcard_rdtypes.items =
          << [rdtype |-> "A", is_wildcard |-> "True", parent |-> <<"github", "io">>],
             [rdtype |-> "AAAA", is_wildcard |-> "None", parent |-> <<"github", "io">>] >>
    /\ AddedTags = {"wildcard", "a-wildcard", "aaaa-error"}

\* C12: a type the detector classifies confirmed not-a-wildcard gets no tag:
\* neither <type>-error nor <type>-wildcard is added for it.
C12_ConfirmedFalseNoTag ==
    TaggingDone =>
        \A i \in 1..Len(wildcard_rdtypes.items) :
            LET it == wildcard_rdtypes.items[i] IN
            it.is_wildcard = "False" =>
                /\ (LowerLabel(it.rdtype) \o "-error") \notin AddedTags
                /\ (LowerLabel(it.rdtype) \o "-wildcard") \notin AddedTags

\* C13: while and after an event whose host is a literal IP is handled,
\* is_wildcard is not called, the event is exactly as it was passed (no tag
\* added, data unchanged), and the call ends by returning.
C13_IpHostUntouched ==
    (h_pc # "idle" /\ IsIp(event0.host)) =>
        /\ iw_pc = "idle" /\ iw_queries = 0
        /\ ~wildcard_rdtypes.bound
        /\ event = event0
        /\ h_outcome \in {"none", "returned"}
        /\ h_pc = "done" => h_outcome = "returned"

\* an IP host with resolved children and a type other than DNS_NAME was handled
C13_Witness ==
    /\ h_pc = "done" /\ h_outcome = "returned"
    /\ IsIp(event0.host)
    /\ event0.type = "URL"
    /\ DOMAIN event0.dns_children = {"A", "AAAA"}
    /\ event = event0

\* C14: handle_wildcard_event never raises: every call that has ended has returned.
C14_NeverRaises ==
    h_pc = "done" => h_outcome = "returned"

\* C15: a call that missed the cache and whose resolution succeeded has stored
\* the (tags, children) pair it returns under its host, and its result is a
\* four-tuple (tags, whitelisted, blacklisted, children), the shape of the
\* short-circuit result.
C15_MissStoresAndReturnsFourTuple ==
    \A c \in Callers :
        (pc[c] = "done" /\ queried[c] = 1 /\ result[c].kind = "return") =>
            /\ ev[c].host \in CacheKeys(event_cache)
            /\ CacheValue(event_cache, ev[c].host) =
                  [tags |-> result[c].tags, children |-> result[c].children]
            /\ result[c].len = ShortCircuitResult.len
            /\ result[c].whitelisted # "absent" /\ result[c].blacklisted # "absent"

ItemsWildcard == {i \in 1..Len(wildcard_rdtypes.items) :
                    wildcard_rdtypes.items[i].is_wildcard = "True"}
DataRewritten == h_pc = "done" /\ h_outcome = "returned" /\ event.data # event0.data

\* C16: when data is rewritten, it is "_wildcard." + the parent of the first
\* wildcard-classified item of the detection map, whatever later items report;
\* it is "_wildcard." + the host's parent domain only when no item is
\* classified wildcard.
C16_FirstWildcardParentWins ==
    DataRewritten =>
        IF ItemsWildcard # {}
        THEN \E i \in ItemsWildcard :
                /\ \A j \in ItemsWildcard : i <= j
                /\ event.data = <<"_wildcard">> \o wildcard_rdtypes.items[i].parent
        ELSE event.data = <<"_wildcard">> \o Tail(event0.host)

\* two wildcard types reporting different parents: the first one's is used
C16_Witness ==
    /\ DataRewritten
    /\ Len(wildcard_rdtypes.items) = 2
    /\ ItemsWildcard = {1, 2}
    /\ wildcard_rdtypes.items[1].parent = <<"io">>
    /\ wildcard_rdtypes.items[2].parent = <<"github", "io">>
    /\ event.data = <<"_wildcard", "io">>

\* C17: data is as it was passed whenever the event type is not DNS_NAME, or
\* the data passed contains the label _wildcard, or dns_children is empty, or
\* the detector returned an empty map; so an event whose data is already
\* _wildcard.<parent> is not rewritten a second time.
C17_NoRewriteCases ==
    ( /\ h_pc # "idle"
      /\ \/ event0.type # "DNS_NAME"
         \/ "_wildcard" \in Labels(event0.data)
         \/ DOMAIN event0.dns_children = {}
         \/ (wildcard_rdtypes.bound /\ wildcard_rdtypes.items = <<>>) ) =>
        event.data = event0.data

\* an event already rewritten to _wildcard.github.io is handled again with a
\* map whose first wildcard parent is io, and keeps its data
C17_Witness ==
    /\ h_pc = "done" /\ h_outcome = "returned"
    /\ event0.type = "DNS_NAME"
    /\ event0.host = <<"www", "github", "io">>
    /\ event0.data = <<"_wildcard", "github", "io">>
    /\ DOMAIN event0.dns_children = {"A"}
    /\ Len(wildcard_rdtypes.items) = 1
    /\ wildcard_rdtypes.items[1] = [rdtype |-> "A", is_wildcard |-> "True", parent |-> <<"io">>]
    /\ event.data = event0.data

\* C18: the step in which the Resolution Service call of a cache miss fails
\* leaves the event cache as it was, with no entry for the host, and the call
\* raises the service's error; a later call that looks the host up while it
\* has no entry goes on to query the Resolution Service.
C18_FailureNotCached ==
    [][ \A c \in Callers :
          /\ (pc[c] = "resolve" /\ pc'[c] = "done" /\ result'[c].kind = "raise") =>
                /\ event_cache' = event_cache
                /\ ev[c].host \notin CacheKeys(event_cache')
                /\ result'[c].exc = "ServiceError"
          /\ ( /\ pc[c] = "lookup" /\ pc'[c] # "lookup"
               /\ svc_failed[ev[c].host]
               /\ ev[c].host \notin CacheKeys(event_cache) ) =>
                /\ pc'[c] = "resolve"
                /\ svc_calls'[ev[c].host] = svc_calls[ev[c].host] + 1 ]_vars

\* after a failed resolution for a host, a later call queries the service again
C18_Witness ==
    \E c \in Callers :
        /\ pc[c] = "resolve"
        /\ svc_failed[ev[c].host]
        /\ svc_calls[ev[c].host] = 2
        /\ ev[c].host \notin CacheKeys(event_cache)

\* C19: under fair granting of the per-host lock and a Resolution Service
\* whose calls end, every resolve_event call that has started waiting for, or
\* holds, the lock eventually completes (returns or raises).
C19_EveryCallCompletes ==
    \A c \in Callers :
        (pc[c] \in {"acquire", "lookup", "resolve"}) ~> (pc[c] = "done")

\* every caller has completed a call for the same host: one of them queried
\* the service, another came after it and found the entry
C19_Witness ==
    /\ \A c \in Callers :
          pc[c] = "done" /\ ev[c].host = HostA /\ ev[c].type = "DNS_NAME"
    /\ \E c \in Callers : queried[c] = 1
    /\ \E c \in Callers : hit[c]

\* C20: while and after an event is handled, on every path, it keeps every tag
\* it was passed with, and its host, type and dns_children are as passed.
C20_OnlyAddsTagsAndData ==
    h_pc # "idle" =>
        /\ event0.tags \subseteq event.tags
        /\ event.host = event0.host
        /\ event.type = event0.type
        /\ event.dns_children = event0.dns_children

\* an event passed with a tag was handled with an empty detection map and
\* another was given new tags: here the first, with nothing changed
C20_Witness ==
    /\ h_pc = "done" /\ h_outcome = "returned"
    /\ event0.tags = {"in-scope"}
    /\ wildcard_rdtypes.bound /\ wildcard_rdtypes.items = <<>>
    /\ DOMAIN event0.dns_children # {}
    /\ event = event0

====
